---- MODULE Spec2Model ----
(***************************************************************************)
(* State-machine model of the statistics polling hook                      *)
(* src/src/features/dashboard/hooks/useSystemStats.ts.                     *)
(*                                                                         *)
(* One action per handler or callback of the hook: the mount effects, the  *)
(* interval callback, the manual refreshStats call, the settlement of each *)
(* IPC promise, the continuation of refreshStats after its await, and      *)
(* clearHistory.  setState(prev => ...) updaters are applied in the order  *)
(* they are enqueued, so each is applied at the step that enqueues it.     *)
(*                                                                         *)
(* null is the string "null"; values returned by the backend are strings.  *)
(*                                                                         *)
(* The second part models the breathing timer hook                         *)
(* src/src/features/breathing/hooks/useBreathingTimer.ts, with its own     *)
(* variables and its own specification.  The third part models the        *)
(* get-top-processes handler of src/electron/main.ts.                      *)
(***************************************************************************)
EXTENDS Integers, Sequences, FiniteSets, TLC

\* ---------------------------------------------------------------- bounds
MaxCycles == 3      \* refresh cycles started in one session
MaxCap    == 2      \* largest maxHistoryLength option explored
MaxClock  == 1      \* largest value Date.now() returns
MaxMinutes == 2     \* longest breathing session explored, in minutes
MaxProcs  == 3      \* longest process list si.processes() returns
MaxCount  == 4      \* largest count asked of get-top-processes

\* ------------------------------------------------------------- constants
Null == "null"
UnavailableMessage == "Electron API not available"
UnknownErrorMessage == "Unknown error"
RejectMessage == "invoke failed"

\* the three per-cycle queries of refreshStats
Queries == {"memory", "network", "processes"}

\* what a call of window.electronAPI.getXxx() can do: resolve with a value,
\* resolve with null, or fail (reject, or throw because the method is absent)
Reject == "reject"
MemoryOutcomes    == {"m1", Null, Reject}
NetworkOutcomes   == {"n1", Null, Reject}
ProcessesOutcomes == {"p1", Null, Reject}
SystemInfoOutcomes == {"s1", Null, Reject}

OutcomesOf(q) ==
  CASE q = "memory"    -> MemoryOutcomes
    [] q = "network"   -> NetworkOutcomes
    [] q = "processes" -> ProcessesOutcomes

VARIABLES
  hasElectronAPI,    \* window.electronAPI.getMemoryStats is a function
  autoStart,         \* option autoStart
  maxHistoryLength,  \* option maxHistoryLength
  isAvailable,       \* useState(() => isElectronStatsAvailable())
  state,             \* useState<IStatsState>
  isRunningRef,      \* useRef(false): the in-flight guard
  intervalRef,       \* useRef<number | null>: the timer handle
  mounted,           \* the mount effects have run
  fetched,           \* promise of each fetchXxx() of the cycle in flight:
                     \* "idle", "pending", or what it settled with
  sysIpc,            \* promise of electronAPI.getSystemInfo()
  calls,             \* number of calls made to each electronAPI method
  now,               \* last value read from Date.now()
  dropped,           \* history variable: a trigger was dropped during the latest cycle
  pushed,            \* history variable: the points pushed since the last clearHistory
  clearedInFlight,   \* history variable: the last clearHistory since the latest cycle
                     \* started ran while that cycle was in flight
  capturedMax,       \* maxHistoryLength in the closure of the refreshStats that
                     \* started the latest cycle
  unmounted          \* the hook's component has been unmounted

\* useBreathingTimer
VARIABLES
  pattern,           \* patternRef.current: the phases, in array order
  timerState,        \* useState<ITimerState>
  timerRef,          \* useRef<number | null>: the handle of the tick interval
  intervalLive,      \* the interval timerRef was given is still scheduled
  ticks,             \* history variable: ticks since the session was last started
  replacedLeftovers  \* history variable: the last start found values left by an
                     \* earlier session

\* ipcMain.handle('get-top-processes')
VARIABLES
  siProcesses,       \* what si.processes() does: [status, list]
  args,              \* the arguments of the invocation: <<>> or <<count>>
  topProcesses       \* what the handler returns: [status, list]; status is
                     \* "pending" until it has returned

mvars == <<siProcesses, args, topProcesses>>

bvars == <<pattern, timerState, timerRef, intervalLive, ticks, replacedLeftovers>>

vars == <<hasElectronAPI, autoStart, maxHistoryLength, isAvailable, state,
          isRunningRef, intervalRef, mounted, fetched, sysIpc, calls, now,
          dropped, pushed, clearedInFlight, capturedMax, unmounted>>

config == <<hasElectronAPI, autoStart, maxHistoryLength, isAvailable>>

\* ------------------------------------------------------- pure functions

isElectronStatsAvailable(api) == api

createInitialState ==
  [memory |-> Null, network |-> Null, systemInfo |-> Null, processes |-> Null,
   history |-> <<>>, isLoading |-> TRUE, error |-> Null]

\* Faulty variants (the *_noCatch, *_noShift, ... definitions below) are not
\* part of the model: each is its neighbour with one plausible slip, kept to
\* show that the properties at the end depend on the code they are about.

\* try { return await window.electronAPI.getXxx() } catch { return null }
fetchSystemInfo(outcome) == IF outcome = Reject THEN Null ELSE outcome

\* faulty variant: the failure of getMemoryStats() is not caught
fetchMemoryStats_noCatch(outcome) == outcome

fetchMemoryStats(outcome) == IF outcome = Reject THEN Null ELSE outcome

\* faulty variant: the failure of getNetworkStats() is not caught
fetchNetworkStats_noCatch(outcome) == outcome

fetchNetworkStats(outcome) == IF outcome = Reject THEN Null ELSE outcome

fetchTopProcesses(outcome) == IF outcome = Reject THEN Null ELSE outcome

\* faulty variant: the overflowing point is never removed
newHistory_noShift(prevHistory, historyPoint, max) ==
  Append(prevHistory, historyPoint)

\* faulty variant: pop() for shift(), the newest point is removed
newHistory_pop(prevHistory, historyPoint, max) ==
  LET h == Append(prevHistory, historyPoint)
  IN  IF Len(h) > max THEN SubSeq(h, 1, Len(h) - 1) ELSE h

\* faulty variant: the new point is put at the front (unshift for push)
newHistory_unshift(prevHistory, historyPoint, max) ==
  LET h == <<historyPoint>> \o prevHistory
  IN  IF Len(h) > max THEN Tail(h) ELSE h

\* const newHistory = [...prev.history, historyPoint]
\* if (newHistory.length > maxHistoryLength) newHistory.shift()
newHistory(prevHistory, historyPoint, max) ==
  LET h == Append(prevHistory, historyPoint)
  IN  IF Len(h) > max THEN Tail(h) ELSE h

\* faulty variant: isLoading is not reset by a completed cycle
applyRefresh_keepsLoading(prev, memory, network, processes, historyPoint, max) ==
  [prev EXCEPT !.memory = memory,
               !.network = network,
               !.processes = processes,
               !.history = newHistory(prev.history, historyPoint, max),
               !.error = Null]

\* setState updater of a completed cycle (lines 162-177)
applyRefresh(prev, memory, network, processes, historyPoint, max) ==
  [prev EXCEPT !.memory = memory,
               !.network = network,
               !.processes = processes,
               !.history = newHistory(prev.history, historyPoint, max),
               !.isLoading = FALSE,
               !.error = Null]

\* error instanceof Error ? error.message : 'Unknown error' (line 179)
errorMessage(error) == IF error = Reject THEN RejectMessage ELSE UnknownErrorMessage

\* --------------------------------------------- breathing: pure functions

SecondsPerMinute == 60

\* breathing.constants.ts
PATTERN_478 ==
  << [name |-> "inhale", duration |-> 4],
     [name |-> "hold",   duration |-> 7],
     [name |-> "exhale", duration |-> 8] >>

PATTERN_BOX ==
  << [name |-> "inhale", duration |-> 4],
     [name |-> "hold",   duration |-> 4],
     [name |-> "exhale", duration |-> 4],
     [name |-> "hold",   duration |-> 4] >>

BREATHING_PATTERNS == {PATTERN_478, PATTERN_BOX}

createInitialTimerState(sessionDuration) ==
  [isActive |-> FALSE, phase |-> "idle", phaseTimeRemaining |-> 0,
   sessionDuration |-> sessionDuration,
   sessionTimeRemaining |-> sessionDuration * SecondsPerMinute,
   cycleCount |-> 0]

\* phases.findIndex(p => p.name === name), 1-based; 0 stands for -1
findIndex(phases, name) ==
  IF \E i \in 1..Len(phases) : phases[i].name = name
  THEN CHOOSE i \in 1..Len(phases) :
         /\ phases[i].name = name
         /\ \A j \in 1..(i - 1) : phases[j].name # name
  ELSE 0

getNextPhase(currentPhase, phases) ==
  LET currentIndex == findIndex(phases, currentPhase)
  IN  IF currentIndex = 0 \/ currentIndex = Len(phases)
      THEN [phase |-> phases[1].name, isNewCycle |-> TRUE]
      ELSE [phase |-> phases[currentIndex + 1].name, isNewCycle |-> FALSE]

\* getPhaseConfig(name, pattern)?.duration ?? 0
getPhaseDuration(phaseName, phases) ==
  IF phaseName = "idle" THEN 0
  ELSE LET i == findIndex(phases, phaseName)
       IN  IF i = 0 THEN 0 ELSE phases[i].duration

\* toggleSession's updater if starting kept the cycle count of the last session
toggleUpdate_keepsCycleCount(prev, phases) ==
  IF prev.isActive
  THEN [prev EXCEPT !.isActive = FALSE, !.phase = "idle", !.phaseTimeRemaining = 0]
  ELSE [prev EXCEPT !.isActive = TRUE,
                    !.phase = phases[1].name,
                    !.phaseTimeRemaining = phases[1].duration,
                    !.sessionTimeRemaining = prev.sessionDuration * SecondsPerMinute]

\* toggleSession's updater if stopping left the phase as it was
toggleUpdate_keepsPhase(prev, phases) ==
  IF prev.isActive
  THEN [prev EXCEPT !.isActive = FALSE, !.phaseTimeRemaining = 0]
  ELSE [prev EXCEPT !.isActive = TRUE,
                    !.phase = phases[1].name,
                    !.phaseTimeRemaining = phases[1].duration,
                    !.sessionTimeRemaining = prev.sessionDuration * SecondsPerMinute,
                    !.cycleCount = 1]

\* setState updater of toggleSession (lines 91-114)
toggleUpdate(prev, phases) ==
  IF prev.isActive
  THEN [prev EXCEPT !.isActive = FALSE, !.phase = "idle", !.phaseTimeRemaining = 0]
  ELSE [prev EXCEPT !.isActive = TRUE,
                    !.phase = phases[1].name,
                    !.phaseTimeRemaining = phases[1].duration,
                    !.sessionTimeRemaining = prev.sessionDuration * SecondsPerMinute,
                    !.cycleCount = 1]

\* setSessionDuration's updater without its isActive check
durationUpdate_whenActive(prev, minutes) ==
  [prev EXCEPT !.sessionDuration = minutes,
               !.sessionTimeRemaining = minutes * SecondsPerMinute]

\* setState updater of setSessionDuration (lines 122-129)
durationUpdate(prev, minutes) ==
  IF prev.isActive THEN prev
  ELSE [prev EXCEPT !.sessionDuration = minutes,
                    !.sessionTimeRemaining = minutes * SecondsPerMinute]

\* the tick updater if a phase were left one tick late (< 0 for <= 0)
tickUpdate_lateAdvance(prev, phases) ==
  LET newSessionTimeRemaining == prev.sessionTimeRemaining - 1
      decremented == prev.phaseTimeRemaining - 1
      next == getNextPhase(prev.phase, phases)
  IN  IF newSessionTimeRemaining <= 0
      THEN [prev EXCEPT !.isActive = FALSE, !.phase = "idle",
                        !.sessionTimeRemaining = 0, !.phaseTimeRemaining = 0]
      ELSE IF decremented < 0
      THEN [prev EXCEPT
              !.phase = next.phase,
              !.phaseTimeRemaining = getPhaseDuration(next.phase, phases),
              !.sessionTimeRemaining = newSessionTimeRemaining,
              !.cycleCount = IF next.isNewCycle THEN prev.cycleCount + 1
                             ELSE prev.cycleCount]
      ELSE [prev EXCEPT
              !.phaseTimeRemaining = decremented,
              !.sessionTimeRemaining = newSessionTimeRemaining]

\* the tick updater if the session were ended one tick late (< 0 for <= 0)
tickUpdate_endsLate(prev, phases) ==
  LET newSessionTimeRemaining == prev.sessionTimeRemaining - 1
      decremented == prev.phaseTimeRemaining - 1
      next == getNextPhase(prev.phase, phases)
  IN  IF newSessionTimeRemaining < 0
      THEN [prev EXCEPT !.isActive = FALSE, !.phase = "idle",
                        !.sessionTimeRemaining = 0, !.phaseTimeRemaining = 0]
      ELSE IF decremented <= 0
      THEN [prev EXCEPT
              !.phase = next.phase,
              !.phaseTimeRemaining = getPhaseDuration(next.phase, phases),
              !.sessionTimeRemaining = newSessionTimeRemaining,
              !.cycleCount = IF next.isNewCycle THEN prev.cycleCount + 1
                             ELSE prev.cycleCount]
      ELSE [prev EXCEPT
              !.phaseTimeRemaining = decremented,
              !.sessionTimeRemaining = newSessionTimeRemaining]

\* setState updater of the interval callback (lines 146-183)
tickUpdate(prev, phases) ==
  LET newSessionTimeRemaining == prev.sessionTimeRemaining - 1
      decremented == prev.phaseTimeRemaining - 1
      next == getNextPhase(prev.phase, phases)
  IN  IF newSessionTimeRemaining <= 0
      THEN [prev EXCEPT !.isActive = FALSE, !.phase = "idle",
                        !.sessionTimeRemaining = 0, !.phaseTimeRemaining = 0]
      ELSE IF decremented <= 0
      THEN [prev EXCEPT
              !.phase = next.phase,
              !.phaseTimeRemaining = getPhaseDuration(next.phase, phases),
              !.sessionTimeRemaining = newSessionTimeRemaining,
              !.cycleCount = IF next.isNewCycle THEN prev.cycleCount + 1
                             ELSE prev.cycleCount]
      ELSE [prev EXCEPT
              !.phaseTimeRemaining = decremented,
              !.sessionTimeRemaining = newSessionTimeRemaining]

\* the timer handle and whether its interval is scheduled
Handle(ref, live) == [ref |-> ref, live |-> live]

\* stopping if the handle were forgotten without clearing its interval
stopTimer_noClear(h) == IF h.ref # Null THEN Handle(Null, h.live) ELSE h

\* if (timerRef.current) { clearInterval(timerRef.current); timerRef.current = null }
\* (lines 93-96)
stopTimer(h) == IF h.ref # Null THEN Handle(Null, FALSE) ELSE h

\* the timer effect, run when a render changes isActive (lines 142-191): the
\* cleanup of the previous run, then the body
timerEffect(wasActive, isActive, h) ==
  IF wasActive = isActive THEN h
  ELSE LET cleaned == IF wasActive /\ h.ref # Null THEN Handle(h.ref, FALSE) ELSE h
       IN  IF isActive THEN Handle("interval", TRUE) ELSE cleaned

\* ------------------------------------------ main process: pure functions

\* count: number = 10 (main.ts line 195)
DefaultCount == 10

\* cpu, in thousandths of a percent, and resident memory of a sampled
\* process; memory 0 also stands for an absent memRss (proc.memRss || 0)
CpuValues == {0, 4, 5}
MemValues == {0, 1, 2}

\* Math.round(proc.cpu * 100) / 100, the result in hundredths of a percent
roundCpu(cpu) == (cpu + 5) \div 10

\* faulty variant: ties on cpu are broken by memory ascending
compare_tiesAscending(a, b) ==
  IF b.cpu - a.cpu # 0 THEN b.cpu - a.cpu ELSE a.memRss - b.memRss

\* the comparator of sort (lines 207-211)
compare(a, b) ==
  IF b.cpu - a.cpu # 0 THEN b.cpu - a.cpu ELSE b.memRss - a.memRss

\* x put into a sorted list, after every element that does not sort after
\* it (Array.prototype.sort is stable)
RECURSIVE insert(_, _)
insert(sorted, x) ==
  IF sorted = <<>> THEN <<x>>
  ELSE IF compare(Head(sorted), x) > 0 THEN <<x>> \o sorted
  ELSE <<Head(sorted)>> \o insert(Tail(sorted), x)

\* [...list].sort(compare)
RECURSIVE sort(_)
sort(list) ==
  IF list = <<>> THEN <<>>
  ELSE insert(sort(SubSeq(list, 1, Len(list) - 1)), list[Len(list)])

\* .slice(0, count), count >= 0
slice(list, count) ==
  SubSeq(list, 1, IF count < Len(list) THEN count ELSE Len(list))

\* .map(proc => ({pid, cpu: round(cpu), memory: memRss || 0, ...}))
mapProcess(proc) ==
  [pid |-> proc.pid, cpu |-> roundCpu(proc.cpu), memory |-> proc.memRss]

\* the handler (lines 195-228), applied to what si.processes() did
getTopProcesses(sample, argv) ==
  LET count == IF argv = <<>> THEN DefaultCount ELSE argv[1]
  IN  IF sample.status = "fail" THEN [status |-> "null", list |-> <<>>]
      ELSE IF sample.status = "nolist" \/ Len(sample.list) = 0
      THEN [status |-> "ok", list |-> <<>>]
      ELSE LET top == slice(sort(sample.list), count)
           IN  [status |-> "ok",
                list |-> [i \in 1..Len(top) |-> mapProcess(top[i])]]

\* ---------------------------------------------------------------- Init

NoCalls == [memory |-> 0, network |-> 0, processes |-> 0, systemInfo |-> 0]

Init ==
  /\ hasElectronAPI \in BOOLEAN
  /\ autoStart \in BOOLEAN
  /\ maxHistoryLength \in 0..MaxCap
  /\ isAvailable = isElectronStatsAvailable(hasElectronAPI)
  /\ state = createInitialState
  /\ isRunningRef = FALSE
  /\ intervalRef = Null
  /\ mounted = FALSE
  /\ fetched = [q \in Queries |-> "idle"]
  /\ sysIpc = "idle"
  /\ calls = NoCalls
  /\ now = 0
  /\ dropped = FALSE
  /\ pushed = <<>>
  /\ clearedInFlight = FALSE
  /\ capturedMax = maxHistoryLength
  /\ unmounted = FALSE

\* ------------------------------------------------------------- actions

Idle == [q \in Queries |-> "idle"]

\* setState(prev => next): React drops an update enqueued on a component that
\* has been unmounted
setState(next) == IF unmounted THEN state ELSE next

Settled(q) == fetched[q] \notin {"idle", "pending"}

\* lines 146-153: take the guard and call the three fetchXxx wrappers, each of
\* which calls its electronAPI method at once unless the API object is gone
\* (then it returns null).  The number of cycles of a session is bounded.
StartCycle(callsIn, max) ==
  /\ callsIn.memory < MaxCycles
  /\ isRunningRef' = TRUE
  /\ fetched' = [q \in Queries |->
                  IF isAvailable /\ hasElectronAPI THEN "pending" ELSE Null]
  /\ calls' = IF isAvailable /\ hasElectronAPI
              THEN [callsIn EXCEPT !.memory = @ + 1, !.network = @ + 1,
                                   !.processes = @ + 1]
              ELSE callsIn
  /\ clearedInFlight' = FALSE
  /\ dropped' = FALSE
  /\ capturedMax' = max
  /\ UNCHANGED state

\* faulty variant: no in-flight guard
refreshStats_noGuard(callsIn, max) ==
  IF ~isAvailable
  THEN /\ state' = [state EXCEPT !.isLoading = FALSE, !.error = UnavailableMessage]
       /\ calls' = callsIn
       /\ UNCHANGED <<isRunningRef, fetched, clearedInFlight, dropped, capturedMax>>
  ELSE StartCycle(callsIn, max)

\* faulty variant: no availability check
refreshStats_noAvailabilityCheck(callsIn, max) ==
  IF isRunningRef
  THEN /\ calls' = callsIn
       /\ dropped' = TRUE
       /\ UNCHANGED <<state, isRunningRef, fetched, clearedInFlight, capturedMax>>
  ELSE StartCycle(callsIn, max)

\* faulty variant: every cycle fetches the system identity as well
refreshStats_alsoSystemInfo(callsIn, max) ==
  IF ~isAvailable
  THEN /\ state' = [state EXCEPT !.isLoading = FALSE, !.error = UnavailableMessage]
       /\ calls' = callsIn
       /\ UNCHANGED <<isRunningRef, fetched, clearedInFlight, dropped, capturedMax>>
  ELSE IF isRunningRef
  THEN /\ calls' = callsIn
       /\ dropped' = TRUE
       /\ UNCHANGED <<state, isRunningRef, fetched, clearedInFlight, capturedMax>>
  ELSE StartCycle([callsIn EXCEPT !.systemInfo = @ + 1], max)

\* faulty variant: a dropped call releases the guard
refreshStats_dropReleases(callsIn, max) ==
  IF ~isAvailable
  THEN /\ state' = [state EXCEPT !.isLoading = FALSE, !.error = UnavailableMessage]
       /\ calls' = callsIn
       /\ UNCHANGED <<isRunningRef, fetched, clearedInFlight, dropped, capturedMax>>
  ELSE IF isRunningRef
  THEN /\ calls' = callsIn
       /\ dropped' = TRUE
       /\ isRunningRef' = FALSE
       /\ UNCHANGED <<state, fetched, clearedInFlight, capturedMax>>
  ELSE StartCycle(callsIn, max)

\* refreshStats (lines 135-153): everything up to the await of Promise.all.
\* callsIn is the call count record on entry, max the maxHistoryLength of the
\* render whose refreshStats this is (useCallback, line 188).
refreshStats(callsIn, max) ==
  IF ~isAvailable
  THEN /\ state' = [state EXCEPT !.isLoading = FALSE, !.error = UnavailableMessage]
       /\ calls' = callsIn
       /\ UNCHANGED <<isRunningRef, fetched, clearedInFlight, dropped, capturedMax>>
  ELSE IF isRunningRef
  THEN /\ calls' = callsIn
       /\ dropped' = TRUE
       /\ UNCHANGED <<state, isRunningRef, fetched, clearedInFlight, capturedMax>>
  ELSE StartCycle(callsIn, max)

\* faulty variant: polling starts whatever autoStart says
Mount_ignoresAutoStart ==
  /\ ~mounted /\ ~unmounted
  /\ mounted' = TRUE
  /\ sysIpc' = IF isAvailable THEN "pending" ELSE "idle"
  /\ LET c1 == IF isAvailable /\ hasElectronAPI
               THEN [calls EXCEPT !.systemInfo = @ + 1] ELSE calls
     IN  IF isAvailable
         THEN /\ refreshStats(c1, maxHistoryLength)
              /\ intervalRef' = "timer"
         ELSE /\ calls' = c1
              /\ UNCHANGED <<state, isRunningRef, fetched, clearedInFlight, dropped,
                             intervalRef, capturedMax>>
  /\ UNCHANGED <<config, unmounted, now, pushed>>

\* The two mount effects (lines 203-212 and 217-232), in declaration order.
Mount ==
  /\ ~mounted /\ ~unmounted
  /\ mounted' = TRUE
  /\ sysIpc' = IF isAvailable THEN "pending" ELSE "idle"
  /\ LET c1 == IF isAvailable /\ hasElectronAPI
               THEN [calls EXCEPT !.systemInfo = @ + 1] ELSE calls
     IN  IF autoStart /\ isAvailable
         THEN /\ refreshStats(c1, maxHistoryLength)
              /\ intervalRef' = "timer"
         ELSE /\ calls' = c1
              /\ UNCHANGED <<state, isRunningRef, fetched, clearedInFlight, dropped,
                             intervalRef, capturedMax>>
  /\ UNCHANGED <<config, unmounted, now, pushed>>

\* window.setInterval callback (lines 222-224)
IntervalTick ==
  /\ intervalRef # Null
  /\ refreshStats(calls, maxHistoryLength)
  /\ UNCHANGED <<config, unmounted, intervalRef, mounted, sysIpc, now, pushed>>

\* the consumer calls refreshStats (the dashboard's Refresh button)
ManualRefresh ==
  /\ mounted
  /\ refreshStats(calls, maxHistoryLength)
  /\ UNCHANGED <<config, unmounted, intervalRef, mounted, sysIpc, now, pushed>>

\* the fetchXxx wrapper of query q, applied to what its electronAPI call did
fetch(q, outcome) ==
  CASE q = "memory"    -> fetchMemoryStats(outcome)
    [] q = "network"   -> fetchNetworkStats(outcome)
    [] q = "processes" -> fetchTopProcesses(outcome)

\* the electronAPI call of query q of the cycle in flight does `outcome`;
\* the wrapper (lines 96-130) settles with the value, or with null if it failed
SettleWith(q, outcome) ==
  /\ fetched[q] = "pending"
  /\ fetched' = [fetched EXCEPT ![q] = fetch(q, outcome)]
  /\ UNCHANGED <<config, unmounted, state, isRunningRef, intervalRef, mounted, sysIpc,
                 calls, now, pushed, clearedInFlight, dropped, capturedMax>>

Settle(q) == \E o \in OutcomesOf(q) : SettleWith(q, o)

\* faulty variant: the guard is released in the catch block, not in a
\* finally, so a cycle that completes keeps it
RefreshResume_noFinally ==
  /\ isRunningRef
  /\ LET memory    == fetched["memory"]
         network   == fetched["network"]
         processes == fetched["processes"]
     IN  /\ \/ \A q \in Queries : Settled(q)
            \/ Reject \in {memory, network, processes}
         /\ IF Reject \notin {memory, network, processes}
            THEN \E timestamp \in now..MaxClock :
                   LET historyPoint == [timestamp |-> timestamp,
                                        memory |-> memory, network |-> network]
                   IN  /\ now' = timestamp
                       /\ state' = setState(applyRefresh(state, memory, network,
                                                         processes, historyPoint,
                                                         capturedMax))
                       /\ pushed' = IF unmounted THEN pushed
                                    ELSE Append(pushed, historyPoint)
            ELSE /\ state' = setState([state EXCEPT !.isLoading = FALSE,
                                                    !.error = errorMessage(Reject)])
                 /\ UNCHANGED <<now, pushed>>
  /\ isRunningRef' = (Reject \notin {fetched["memory"], fetched["network"],
                                     fetched["processes"]})
  /\ fetched' = Idle
  /\ UNCHANGED <<config, unmounted, intervalRef, mounted, sysIpc, calls,
                 clearedInFlight, dropped, capturedMax>>

\* faulty variant: the await is raced against a timeout, which fails a cycle
\* that still has a query pending
RefreshResume_withTimeout ==
  /\ isRunningRef
  /\ LET memory    == fetched["memory"]
         network   == fetched["network"]
         processes == fetched["processes"]
     IN  /\ TRUE
         /\ IF \A q \in Queries : Settled(q)
            THEN \E timestamp \in now..MaxClock :
                   LET historyPoint == [timestamp |-> timestamp,
                                        memory |-> memory, network |-> network]
                   IN  /\ now' = timestamp
                       /\ state' = setState(applyRefresh(state, memory, network,
                                                         processes, historyPoint,
                                                         capturedMax))
                       /\ pushed' = IF unmounted THEN pushed
                                    ELSE Append(pushed, historyPoint)
            ELSE /\ state' = setState([state EXCEPT !.isLoading = FALSE,
                                                    !.error = errorMessage(Reject)])
                 /\ UNCHANGED <<now, pushed>>
  /\ isRunningRef' = FALSE
  /\ fetched' = Idle
  /\ UNCHANGED <<config, unmounted, intervalRef, mounted, sysIpc, calls,
                 clearedInFlight, dropped, capturedMax>>

\* faulty variant: the cycle writes what it has as soon as one query has
\* settled, null for the others
RefreshResume_firstSettled ==
  /\ isRunningRef
  /\ LET memory    == fetched["memory"]
         network   == fetched["network"]
         processes == fetched["processes"]
         partial(q) == IF Settled(q) THEN fetched[q] ELSE Null
     IN  /\ \E q \in Queries : Settled(q)
         /\ IF TRUE
            THEN \E timestamp \in now..MaxClock :
                   LET historyPoint == [timestamp |-> timestamp,
                                        memory |-> partial("memory"), network |-> partial("network")]
                   IN  /\ now' = timestamp
                       /\ state' = setState(applyRefresh(state, partial("memory"), partial("network"),
                                                         partial("processes"), historyPoint,
                                                         capturedMax))
                       /\ pushed' = IF unmounted THEN pushed
                                    ELSE Append(pushed, historyPoint)
            ELSE /\ state' = setState([state EXCEPT !.isLoading = FALSE,
                                                    !.error = errorMessage(Reject)])
                 /\ UNCHANGED <<now, pushed>>
  /\ isRunningRef' = FALSE
  /\ fetched' = Idle
  /\ UNCHANGED <<config, unmounted, intervalRef, mounted, sysIpc, calls,
                 clearedInFlight, dropped, capturedMax>>

\* refreshStats after the await (lines 149-187): Promise.all fulfils when the
\* three wrappers have fulfilled and rejects as soon as one of them rejects.
RefreshResume ==
  /\ isRunningRef
  /\ LET memory    == fetched["memory"]
         network   == fetched["network"]
         processes == fetched["processes"]
     IN  /\ \/ \A q \in Queries : Settled(q)
            \/ Reject \in {memory, network, processes}
         /\ IF Reject \notin {memory, network, processes}
            THEN \E timestamp \in now..MaxClock :
                   LET historyPoint == [timestamp |-> timestamp,
                                        memory |-> memory, network |-> network]
                   IN  /\ now' = timestamp
                       /\ state' = setState(applyRefresh(state, memory, network,
                                                         processes, historyPoint,
                                                         capturedMax))
                       /\ pushed' = IF unmounted THEN pushed
                                    ELSE Append(pushed, historyPoint)
            ELSE /\ state' = setState([state EXCEPT !.isLoading = FALSE,
                                                    !.error = errorMessage(Reject)])
                 /\ UNCHANGED <<now, pushed>>
  /\ isRunningRef' = FALSE
  /\ fetched' = Idle
  /\ UNCHANGED <<config, unmounted, intervalRef, mounted, sysIpc, calls,
                 clearedInFlight, dropped, capturedMax>>

\* faulty variant: a clear is ignored while a cycle is in flight
clearHistory_skippedInFlight ==
  /\ mounted
  /\ state' = IF isRunningRef THEN state ELSE [state EXCEPT !.history = <<>>]
  /\ pushed' = IF isRunningRef THEN pushed ELSE <<>>
  /\ clearedInFlight' = isRunningRef
  /\ UNCHANGED <<config, unmounted, isRunningRef, intervalRef, mounted, fetched, sysIpc,
                 calls, now, dropped, capturedMax>>

\* faulty variant: the whole state is reset, not only history
clearHistory_resetsState ==
  /\ mounted
  /\ state' = createInitialState
  /\ pushed' = <<>>
  /\ clearedInFlight' = isRunningRef
  /\ UNCHANGED <<config, unmounted, isRunningRef, intervalRef, mounted, fetched, sysIpc,
                 calls, now, dropped, capturedMax>>

\* faulty variant: only the newest point is removed
clearHistory_popsNewest ==
  /\ mounted
  /\ state' = [state EXCEPT
                 !.history = IF @ = <<>> THEN @ ELSE SubSeq(@, 1, Len(@) - 1)]
  /\ pushed' = <<>>
  /\ clearedInFlight' = isRunningRef
  /\ UNCHANGED <<config, unmounted, isRunningRef, intervalRef, mounted, fetched, sysIpc,
                 calls, now, dropped, capturedMax>>

\* clearHistory (lines 193-198)
clearHistory ==
  /\ mounted
  /\ state' = [state EXCEPT !.history = <<>>]
  /\ pushed' = <<>>
  /\ clearedInFlight' = isRunningRef
  /\ UNCHANGED <<config, unmounted, isRunningRef, intervalRef, mounted, fetched, sysIpc,
                 calls, now, dropped, capturedMax>>

\* faulty variant: the identity is merged into the state of the render that
\* ran the effect (setState({...state, systemInfo})), not into prev
SystemInfoLoaded_staleState ==
  /\ sysIpc = "pending"
  /\ \E o \in (IF hasElectronAPI THEN SystemInfoOutcomes ELSE {Null}) :
       state' = setState([createInitialState EXCEPT !.systemInfo = fetchSystemInfo(o)])
  /\ sysIpc' = "done"
  /\ UNCHANGED <<config, unmounted, isRunningRef, intervalRef, mounted, fetched, calls,
                 now, pushed, clearedInFlight, dropped, capturedMax>>

\* fetchSystemInfo().then(systemInfo => setState(...)) (lines 206-211)
SystemInfoLoaded ==
  /\ sysIpc = "pending"
  /\ \E o \in (IF hasElectronAPI THEN SystemInfoOutcomes ELSE {Null}) :
       state' = setState([state EXCEPT !.systemInfo = fetchSystemInfo(o)])
  /\ sysIpc' = "done"
  /\ UNCHANGED <<config, unmounted, isRunningRef, intervalRef, mounted, fetched, calls,
                 now, pushed, clearedInFlight, dropped, capturedMax>>

\* the component re-renders with another maxHistoryLength option (lines
\* 69-73): refreshStats is a new function (line 188), so the polling effect
\* is cleaned up and run again (lines 217-232)
SetMaxHistoryLength(max) ==
  /\ mounted
  /\ max # maxHistoryLength
  /\ maxHistoryLength' = max
  /\ IF autoStart /\ isAvailable
     THEN /\ refreshStats(calls, max)
          /\ intervalRef' = "timer"
     ELSE UNCHANGED <<state, isRunningRef, fetched, calls, clearedInFlight,
                      dropped, capturedMax, intervalRef>>
  /\ UNCHANGED <<hasElectronAPI, autoStart, isAvailable, unmounted, mounted,
                 sysIpc, now, pushed>>

\* faulty variant: the polling effect has no cleanup
Unmount_noCleanup ==
  /\ mounted
  /\ mounted' = FALSE
  /\ unmounted' = TRUE
  /\ UNCHANGED <<config, state, isRunningRef, intervalRef, fetched, sysIpc, calls,
                 now, pushed, clearedInFlight, dropped, capturedMax>>

\* the component is unmounted: the cleanup of the polling effect (lines
\* 226-231) clears the interval
Unmount ==
  /\ mounted
  /\ mounted' = FALSE
  /\ unmounted' = TRUE
  /\ intervalRef' = Null
  /\ UNCHANGED <<config, state, isRunningRef, fetched, sysIpc, calls, now, pushed,
                 clearedInFlight, dropped, capturedMax>>

\* the get-top-processes handler never invoked: the hooks' specifications
\* leave it there
HandlerParked ==
  /\ siProcesses = [status |-> "ok", list |-> <<>>]
  /\ args = <<>>
  /\ topProcesses = [status |-> "pending", list |-> <<>>]

\* the breathing timer as constructed and never started: the dashboard's
\* specifications leave it there
TimerParked ==
  /\ pattern = PATTERN_478
  /\ timerState = createInitialTimerState(1)
  /\ timerRef = Null
  /\ intervalLive = FALSE
  /\ ticks = 0
  /\ replacedLeftovers = FALSE

Next ==
  \/ Mount /\ UNCHANGED <<bvars, mvars>>
  \/ IntervalTick /\ UNCHANGED <<bvars, mvars>>
  \/ ManualRefresh /\ UNCHANGED <<bvars, mvars>>
  \/ \E q \in Queries : Settle(q) /\ UNCHANGED <<bvars, mvars>>
  \/ RefreshResume /\ UNCHANGED <<bvars, mvars>>
  \/ clearHistory /\ UNCHANGED <<bvars, mvars>>
  \/ SystemInfoLoaded /\ UNCHANGED <<bvars, mvars>>

DashboardInit == Init /\ TimerParked /\ HandlerParked

Spec == DashboardInit /\ [][Next]_<<vars, bvars, mvars>>

\* What the runtime itself schedules: React runs the mount effects, the
\* interval timer fires, a continuation whose promise has settled runs.  Each
\* issued IPC query is assumed to settle.  The consumer's calls (ManualRefresh,
\* clearHistory) are under no obligation to happen.
Fairness ==
  /\ WF_vars(Mount)
  /\ WF_vars(IntervalTick)
  /\ \A q \in Queries : WF_vars(Settle(q))
  /\ WF_vars(RefreshResume)
  /\ WF_vars(SystemInfoLoaded)

FairSpec == DashboardInit /\ [][Next]_<<vars, bvars, mvars>> /\ Fairness

\* the hook with its maxHistoryLength option changing between renders
CapacityNext ==
  \/ Next
  \/ \E max \in 0..MaxCap : SetMaxHistoryLength(max) /\ UNCHANGED <<bvars, mvars>>

SpecCapacity == DashboardInit /\ [][CapacityNext]_<<vars, bvars, mvars>>

\* the hook with its component unmounted at any time
TeardownNext ==
  \/ Next
  \/ Unmount /\ UNCHANGED <<bvars, mvars>>

SpecTeardown == DashboardInit /\ [][TeardownNext]_<<vars, bvars, mvars>>

\* -------------------------------------------------- breathing: actions

\* the dashboard hook as constructed without the capability: the breathing
\* timer's specification leaves it there
DashboardParked ==
  Init /\ ~hasElectronAPI /\ ~autoStart /\ maxHistoryLength = 0

BInit ==
  /\ pattern \in BREATHING_PATTERNS
  /\ \E initialDuration \in 1..MaxMinutes :
       timerState = createInitialTimerState(initialDuration)
  /\ timerRef = Null
  /\ intervalLive = FALSE
  /\ ticks = 0
  /\ replacedLeftovers = FALSE

\* toggleSession, the render it causes and the timer effect of that render
toggleSession ==
  LET next == toggleUpdate(timerState, pattern)
      h0   == Handle(timerRef, intervalLive)
      h1   == IF timerState.isActive THEN stopTimer(h0) ELSE h0
      h2   == timerEffect(timerState.isActive, next.isActive, h1)
  IN  /\ timerState' = next
      /\ timerRef' = h2.ref
      /\ intervalLive' = h2.live
      /\ ticks' = IF next.isActive THEN 0 ELSE ticks
      /\ replacedLeftovers' =
           IF next.isActive
           THEN \/ timerState.cycleCount # 0
                \/ timerState.sessionTimeRemaining #
                     timerState.sessionDuration * SecondsPerMinute
           ELSE replacedLeftovers
      /\ UNCHANGED <<pattern, vars, mvars>>

\* setSessionDuration(minutes)
setSessionDuration(minutes) ==
  /\ timerState' = durationUpdate(timerState, minutes)
  /\ UNCHANGED <<pattern, timerRef, intervalLive, ticks, replacedLeftovers, vars,
                 mvars>>

\* the interval callback, the render it causes and the timer effect of that
\* render; the updater that ends the session clears the interval (line 150)
Tick ==
  /\ intervalLive
  /\ LET next == tickUpdate(timerState, pattern)
         h0   == Handle(timerRef, intervalLive)
         h1   == IF timerState.sessionTimeRemaining - 1 <= 0
                 THEN Handle(timerRef, FALSE) ELSE h0
         h2   == timerEffect(timerState.isActive, next.isActive, h1)
     IN  /\ timerState' = next
         /\ timerRef' = h2.ref
         /\ intervalLive' = h2.live
  /\ ticks' = ticks + 1
  /\ UNCHANGED <<pattern, replacedLeftovers, vars, mvars>>

BNext ==
  \/ toggleSession
  \/ \E minutes \in 1..MaxMinutes : setSessionDuration(minutes)
  \/ Tick

BreathingInit == BInit /\ DashboardParked /\ HandlerParked

SpecBreathing == BreathingInit /\ [][BNext]_<<vars, bvars, mvars>>

\* ------------------------------------------------ main process: actions

\* the process lists si.processes() can return: pids are 1..n in list order
ProcessLists ==
  UNION { { [i \in 1..n |-> [pid |-> i, cpu |-> c[i], memRss |-> m[i]]] :
              c \in [1..n -> CpuValues], m \in [1..n -> MemValues] } :
          n \in 0..MaxProcs }

HInit ==
  /\ siProcesses \in
       { [status |-> "ok", list |-> l] : l \in ProcessLists }
         \cup { [status |-> "fail", list |-> <<>>],
                [status |-> "nolist", list |-> <<>>] }
  /\ args \in {<<>>} \cup { <<c>> : c \in 0..MaxCount }
  /\ topProcesses = [status |-> "pending", list |-> <<>>]

\* the handler runs to its return
HandleGetTopProcesses ==
  /\ topProcesses.status = "pending"
  /\ topProcesses' = getTopProcesses(siProcesses, args)
  /\ UNCHANGED <<siProcesses, args, vars, bvars>>

HandlerInit == HInit /\ DashboardParked /\ TimerParked

SpecHandler == HandlerInit /\ [][HandleGetTopProcesses]_<<vars, bvars, mvars>>

\* ---------------------------------------------------------------------
\* Properties
\* ---------------------------------------------------------------------

\* a call of refreshStats after mount, from the timer or from the consumer
Trigger == IntervalTick \/ ManualRefresh

\* the point a completing cycle builds from the state it leaves behind
LandedPoint ==
  [timestamp |-> now', memory |-> state'.memory, network |-> state'.network]

\* C1: a refreshStats call made while a cycle is in flight is dropped: it
\* issues no query and changes nothing of the program's state.  Queries are
\* issued only by the step that takes the guard, one of each kind, and a
\* point is pushed only by the step that releases it, one per cycle.
C1_AtMostOneRefresh ==
  [][ /\ (isRunningRef /\ Trigger) =>
           UNCHANGED <<config, unmounted, state, isRunningRef, intervalRef, mounted,
                       fetched, sysIpc, calls, now, pushed>>
      /\ (mounted /\ calls' # calls) =>
           /\ ~isRunningRef /\ isRunningRef'
           /\ calls' = [calls EXCEPT !.memory = @ + 1, !.network = @ + 1,
                                     !.processes = @ + 1]
      /\ (Len(pushed') > Len(pushed)) =>
           /\ isRunningRef /\ ~isRunningRef'
           /\ Len(pushed') = Len(pushed) + 1
    ]_vars

\* two overlapping triggers, one cycle completed: one call of each query and
\* one history point
C1_Witness ==
  /\ dropped
  /\ ~isRunningRef
  /\ calls.memory = 1 /\ calls.network = 1 /\ calls.processes = 1
  /\ Len(pushed) = 1
  /\ Len(state.history) = 1

\* C2: history never holds more than maxHistoryLength points.
C2_BoundedHistory == Len(state.history) <= maxHistoryLength

\* a full buffer after more cycles than it can hold
C2_Witness ==
  /\ maxHistoryLength = MaxCap
  /\ Len(state.history) = maxHistoryLength
  /\ Len(pushed) > maxHistoryLength

\* C3: history is exactly the most recent min(N, M) of the N points pushed
\* since it was last empty, oldest first, for every capacity M >= 0.
C3_FifoEviction ==
  LET n == Len(pushed)
      k == IF n < maxHistoryLength THEN n ELSE maxHistoryLength
  IN  state.history = SubSeq(pushed, n - k + 1, n)

\* more cycles than the capacity, the oldest point evicted, the points
\* retained distinguishable
C3_Witness ==
  /\ maxHistoryLength >= 2
  /\ Len(pushed) > maxHistoryLength
  /\ Len(state.history) = maxHistoryLength
  /\ state.history[1] # state.history[2]
  /\ pushed[1] # state.history[1]

\* C4: with the capability absent, a refreshStats call issues no query, sets
\* error to the unavailable message and isLoading to false, and leaves
\* memory (null), network, processes and history as they were.
C4_AvailabilityGating ==
  [][ (~isAvailable /\ Trigger) =>
        /\ calls' = calls
        /\ calls' = NoCalls
        /\ fetched' = fetched
        /\ ~isRunningRef'
        /\ state'.error = UnavailableMessage
        /\ state'.error # Null
        /\ state'.isLoading = FALSE
        /\ state'.memory = Null
        /\ state'.network = state.network
        /\ state'.processes = state.processes
        /\ state'.history = state.history
    ]_vars

\* refreshStats has run without the capability
C4_Witness ==
  /\ ~isAvailable
  /\ mounted
  /\ state.error = UnavailableMessage
  /\ ~state.isLoading
  /\ state.memory = Null
  /\ calls = NoCalls

\* C5: a query whose call resolves with null or fails settles its own field
\* with null and no other; the cycle then completes with the fetched values
\* in their fields, pushes one point carrying them, and sets no error.
C5_FailureIsolation ==
  [][ /\ \A q \in Queries : \A o \in OutcomesOf(q) :
           SettleWith(q, o) =>
             /\ fetched'[q] = (IF o \in {Null, Reject} THEN Null ELSE o)
             /\ \A r \in Queries \ {q} : fetched'[r] = fetched[r]
             /\ state' = state
      /\ RefreshResume =>
           /\ state'.memory = fetched["memory"]
           /\ state'.network = fetched["network"]
           /\ state'.processes = fetched["processes"]
           /\ state'.error = Null
           /\ pushed' = Append(pushed, LandedPoint)
    ]_vars

\* a completed cycle whose network query failed and whose memory query did
\* not: the point has network null and memory set, and no error
C5_Witness ==
  /\ ~isRunningRef
  /\ state.memory = "m1"
  /\ state.network = Null
  /\ state.processes = "p1"
  /\ state.error = Null
  /\ Len(state.history) >= 1
  /\ state.history[Len(state.history)].memory = "m1"
  /\ state.history[Len(state.history)].network = Null

\* C6: when a cycle completes after clearHistory ran during its flight, the
\* buffer holds that cycle's point alone (nothing if the capacity is 0).
C6_ClearInFlight ==
  [][ (RefreshResume /\ clearedInFlight) =>
        state'.history =
          (IF maxHistoryLength >= 1 THEN <<LandedPoint>> ELSE <<>>)
    ]_vars

\* a second cycle completed after a clear during its flight: the point of the
\* first cycle is gone, the buffer has room for two and holds one
C6_Witness ==
  /\ clearedInFlight
  /\ ~isRunningRef
  /\ maxHistoryLength >= 2
  /\ calls.memory >= 2
  /\ Len(state.history) = 1

\* C7: getSystemInfo is called once, at mount, when the capability is
\* present, and never otherwise; no refresh cycle calls it.
C7_IdentityOnce ==
  calls.systemInfo = (IF mounted /\ isAvailable THEN 1 ELSE 0)

\* every cycle the bound allows has run, and still one identity call
C7_Witness ==
  /\ calls.memory = MaxCycles
  /\ ~isRunningRef
  /\ calls.systemInfo = 1

\* C8: clearHistory empties history, whatever it held, and changes no other
\* field of the state nor isAvailable.
C8_ClearFrame ==
  [][ clearHistory =>
        /\ state'.history = <<>>
        /\ state'.memory = state.memory
        /\ state'.network = state.network
        /\ state'.systemInfo = state.systemInfo
        /\ state'.processes = state.processes
        /\ state'.isLoading = state.isLoading
        /\ state'.error = state.error
        /\ isAvailable' = isAvailable
    ]_vars

\* history emptied after a cycle had completed into a buffer with room
C8_Witness ==
  /\ maxHistoryLength >= 1
  /\ ~isRunningRef
  /\ state.memory # Null
  /\ state.systemInfo # Null
  /\ ~state.isLoading
  /\ state.history = <<>>

\* C9: a completing cycle writes its three results to memory, network and
\* processes, sets error to null and isLoading to false, pushes exactly one
\* point with that memory and network (the newest of history whenever the
\* capacity keeps a point), and leaves systemInfo alone.
C9_CompletedCycle ==
  [][ RefreshResume =>
        /\ state'.memory = fetched["memory"]
        /\ state'.network = fetched["network"]
        /\ state'.processes = fetched["processes"]
        /\ state'.error = Null
        /\ state'.isLoading = FALSE
        /\ state'.systemInfo = state.systemInfo
        /\ Len(pushed') = Len(pushed) + 1
        /\ pushed'[Len(pushed')].memory = fetched["memory"]
        /\ pushed'[Len(pushed')].network = fetched["network"]
        /\ maxHistoryLength >= 1 =>
             /\ Len(state'.history) >= 1
             /\ state'.history[Len(state'.history)] = pushed'[Len(pushed')]
             /\ Len(state'.history) <= Len(state.history) + 1
    ]_vars

\* a cycle completed with values in all three fields and a point for them
C9_Witness ==
  /\ isAvailable
  /\ ~isRunningRef
  /\ ~state.isLoading
  /\ state.memory = "m1"
  /\ state.network = "n1"
  /\ state.processes = "p1"
  /\ state.error = Null
  /\ Len(state.history) >= 1
  /\ state.history[Len(state.history)].memory = "m1"

\* C10: error is null or the unavailable message, and it is non-null only
\* when the capability is absent.
C10_OnlyUnavailableError ==
  /\ state.error \in {Null, UnavailableMessage}
  /\ state.error # Null => ~isAvailable

\* a cycle completed with every query failed, capability present, no error
C10_Witness ==
  /\ isAvailable
  /\ ~isRunningRef
  /\ Len(pushed) >= 1
  /\ state.memory = Null
  /\ state.network = Null
  /\ state.processes = Null
  /\ state.error = Null

\* C11 as stated: with the capability absent the session by itself reaches a
\* state with error set and isLoading false.
C11_UnavailableSurfaced ==
  (~isAvailable) ~> (state.error # Null /\ ~state.isLoading)

\* C11, amended: with the capability absent nothing but an explicit
\* refreshStats call sets error (the mount effects leave the state as
\* constructed, isLoading true and error null); that call sets isLoading
\* false with it; once set, error stays set; and no step issues a query.
C11_UnavailablePersistent ==
  [][ ~isAvailable =>
        /\ calls' = NoCalls
        /\ state.error # Null => state'.error # Null
        /\ (state.error = Null /\ state'.error # Null) =>
             /\ ManualRefresh
             /\ ~state'.isLoading
        /\ Mount => state' = createInitialState
    ]_vars

\* the error has been set by a call and has outlived a clearHistory that
\* found history empty, with no timer and no identity fetch
C11_Witness ==
  /\ ~isAvailable
  /\ mounted
  /\ state.error # Null
  /\ ~state.isLoading
  /\ intervalRef = Null
  /\ sysIpc = "idle"
  /\ state.systemInfo = Null

\* C12: a timer exists exactly when the hook is mounted with autoStart set
\* and the capability present; mounting then starts one cycle at once, and
\* otherwise starts none; the timer callback runs only under that condition,
\* and without it a cycle is started by the consumer's call alone.
C12_PollingGated ==
  [][ /\ (intervalRef' # Null) = (mounted' /\ autoStart /\ isAvailable)
      /\ Mount =>
           /\ isRunningRef' = (autoStart /\ isAvailable)
           /\ calls'.memory = (IF autoStart /\ isAvailable THEN 1 ELSE 0)
      /\ IntervalTick => (autoStart /\ isAvailable)
      /\ (~(autoStart /\ isAvailable) /\ ~isRunningRef /\ isRunningRef') =>
           (ManualRefresh /\ ~IntervalTick)
    ]_vars

\* polling under way: the cycle started at mount has completed and a later
\* one is in flight, the timer is set
C12_Witness ==
  /\ autoStart
  /\ isAvailable
  /\ intervalRef # Null
  /\ isRunningRef
  /\ calls.memory >= 2
  /\ Len(pushed) >= 1

\* C13 as stated, for a mounted hook with the capability present: isLoading
\* is true exactly when a cycle is in flight.
C13_LoadingIffInFlight ==
  (mounted /\ isAvailable) => (state.isLoading = isRunningRef)


\* ------------------------------------------------- breathing: properties

RECURSIVE elapsedBefore(_, _)
elapsedBefore(phases, i) ==
  IF i <= 1 THEN 0 ELSE elapsedBefore(phases, i - 1) + phases[i - 1].duration

cycleLength(phases) == elapsedBefore(phases, Len(phases) + 1)

\* the array position a session is at t ticks after its start, when the
\* phases are taken in array order
positionAt(phases, t) ==
  CHOOSE i \in 1..Len(phases) :
    /\ elapsedBefore(phases, i) <= t % cycleLength(phases)
    /\ t % cycleLength(phases) < elapsedBefore(phases, i + 1)

\* C15 as stated: whatever the pattern, an active session is in the phase
\* its array position gives when the phases are taken in array order, and
\* cycleCount is one more than the number of wraps past the end of the array.
C15_ArrayOrder ==
  timerState.isActive =>
    /\ timerState.phase = pattern[positionAt(pattern, ticks)].name
    /\ timerState.cycleCount = (ticks \div cycleLength(pattern)) + 1

\* C16: a tick reaches only an active session; the session is still active
\* after every tick before the (sessionDuration x 60)-th since its start, and
\* that tick leaves it inactive, idle, with both remaining times 0 and the
\* interval cleared, so that no tick follows.
C16_SessionEnds ==
  [][ Tick =>
        /\ timerState.isActive
        /\ ticks' <= timerState.sessionDuration * SecondsPerMinute
        /\ timerState'.isActive =
             (ticks' < timerState.sessionDuration * SecondsPerMinute)
        /\ timerState'.isActive =>
             timerState'.sessionTimeRemaining =
               timerState.sessionDuration * SecondsPerMinute - ticks'
        /\ ~timerState'.isActive =>
             /\ timerState' = [timerState EXCEPT !.isActive = FALSE,
                                                 !.phase = "idle",
                                                 !.sessionTimeRemaining = 0,
                                                 !.phaseTimeRemaining = 0]
             /\ ~intervalLive'
    ]_bvars

C16_Witness ==
  /\ ~timerState.isActive /\ timerState.phase = "idle"
  /\ timerState.sessionTimeRemaining = 0 /\ timerState.phaseTimeRemaining = 0
  /\ ticks = timerState.sessionDuration * SecondsPerMinute
  /\ ~intervalLive

C18_Stop ==
  [][ /\ (toggleSession /\ timerState.isActive) =>
           /\ timerState' = [timerState EXCEPT !.isActive = FALSE,
                                               !.phase = "idle",
                                               !.phaseTimeRemaining = 0]
           /\ ~intervalLive'
           /\ timerRef' = Null
      /\ ~timerState.isActive => ~Tick
      /\ ~timerState'.isActive => ~intervalLive'
    ]_bvars

C18_Witness ==
  /\ ~timerState.isActive /\ timerState.phase = "idle"
  /\ timerState.phaseTimeRemaining = 0
  /\ timerState.sessionTimeRemaining > 0
  /\ timerState.sessionTimeRemaining <
       timerState.sessionDuration * SecondsPerMinute
  /\ timerState.cycleCount >= 2
  /\ ~intervalLive /\ timerRef = Null

\* C19: setSessionDuration(m) on an inactive timer sets sessionDuration to m
\* and sessionTimeRemaining to m x 60 and nothing else; on an active timer
\* it changes nothing.
C19_SetDuration ==
  [][ \A m \in 1..MaxMinutes :
        setSessionDuration(m) =>
          /\ timerState' =
               IF timerState.isActive THEN timerState
               ELSE [timerState EXCEPT
                       !.sessionDuration = m,
                       !.sessionTimeRemaining = m * SecondsPerMinute]
          /\ UNCHANGED <<pattern, timerRef, intervalLive>>
    ]_bvars

C19_Witness ==
  /\ ~timerState.isActive /\ timerState.cycleCount >= 2
  /\ timerState.phase = "idle"
  /\ timerState.sessionTimeRemaining =
       timerState.sessionDuration * SecondsPerMinute


\* ------------------------------------------------ dashboard: liveness

\* C20: when every issued query settles and the runtime runs what it has
\* scheduled, a cycle in flight is eventually over with the in-flight guard
\* released; a trigger that finds the guard released and the capability
\* present starts a cycle and issues each of the three queries once more; and
\* a hook mounted with autoStart and the capability eventually has isLoading
\* false.
C20_RefreshCompletes ==
  /\ isRunningRef ~> (~isRunningRef /\ fetched = Idle)
  /\ (mounted /\ autoStart /\ isAvailable) ~> ~state.isLoading
  /\ [][ (Trigger /\ ~isRunningRef /\ isAvailable) =>
           /\ isRunningRef'
           /\ calls'.memory = calls.memory + 1
           /\ calls'.network = calls.network + 1
           /\ calls'.processes = calls.processes + 1
       ]_vars

C20_Witness ==
  /\ mounted /\ isAvailable /\ ~state.isLoading
  /\ isRunningRef /\ calls.memory >= 2 /\ Len(pushed) >= 1


\* ------------------------------------------- dashboard: further properties

Pending(q) == fetched[q] = "pending"

\* the step that starts a refresh cycle
CycleStarts == ~isRunningRef /\ isRunningRef'

\* C21: while a query of the cycle in flight stays unsettled, the guard stays
\* taken, every trigger is dropped, no query is issued, memory, network,
\* processes, isLoading and error keep their values, and only clearHistory
\* and the identity result change the state at all.
C21_HeadOfLineBlocking ==
  [][ \A q \in Queries :
      (isRunningRef /\ Pending(q) /\ ~Settle(q)) =>
        /\ fetched'[q] = "pending"
        /\ isRunningRef'
        /\ calls' = calls
        /\ Trigger => (dropped' /\ fetched' = fetched /\ state' = state)
        /\ state'.memory = state.memory
        /\ state'.network = state.network
        /\ state'.processes = state.processes
        /\ state'.isLoading = state.isLoading
        /\ state'.error = state.error
        /\ state' # state => (clearHistory \/ SystemInfoLoaded)
    ]_vars

\* a cycle held by its unsettled processes query: the other two have
\* settled, a trigger was dropped, a clear and the identity result went
\* through, and nothing of the cycle shows
C21_Witness ==
  /\ isRunningRef /\ Pending("processes")
  /\ Settled("memory") /\ Settled("network")
  /\ dropped /\ clearedInFlight /\ sysIpc = "done"
  /\ calls.memory = 1 /\ state.memory = Null /\ state.isLoading

\* C22: the step that starts a cycle issues the three queries together; no
\* step taken while a query of the cycle is pending changes memory, network,
\* processes, isLoading or error or pushes a point; the cycle's write happens
\* once all three have settled; and the settlement of one query, whatever
\* its outcome, leaves the others as they were.
C22_FetchBarrier ==
  [][ /\ (mounted' /\ isAvailable /\ CycleStarts) =>
           /\ \A q \in Queries : fetched'[q] = "pending"
           /\ \A q \in Queries : calls'[q] = calls[q] + 1
      /\ (\E q \in Queries : Pending(q)) =>
           /\ state'.memory = state.memory
           /\ state'.network = state.network
           /\ state'.processes = state.processes
           /\ Len(pushed') <= Len(pushed)
           /\ ~RefreshResume
      /\ RefreshResume => \A q \in Queries : Settled(q)
      /\ \A q \in Queries : Settle(q) =>
           \A r \in Queries \ {q} : fetched'[r] = fetched[r]
    ]_vars

\* a second cycle with its memory query settled to a value and another
\* query pending, while the state still shows the first cycle's null
C22_Witness ==
  /\ isRunningRef /\ calls.memory = 2
  /\ fetched["memory"] = "m1" /\ Pending("network")
  /\ state.memory = Null /\ Len(pushed) = 1

Chronological(h) ==
  \A i, j \in 1..Len(h) : i <= j => h[i].timestamp <= h[j].timestamp

\* C23: the clock is read only by a completing cycle, once its queries have
\* all settled and in the step that releases the guard; the point pushed
\* carries that reading; and with the clock never going back, the
\* timestamps of history never decrease from oldest to newest.
C23_ChronologicalHistory ==
  [][ /\ Chronological(state'.history)
      /\ Len(pushed') > Len(pushed) =>
           /\ RefreshResume
           /\ \A q \in Queries : Settled(q)
           /\ isRunningRef /\ ~isRunningRef'
           /\ pushed'[Len(pushed')].timestamp = now'
           /\ now' >= now
           /\ capturedMax >= 1 =>
                state'.history[Len(state'.history)].timestamp = now'
      /\ now' # now => RefreshResume
    ]_vars

\* two points with different timestamps, oldest first
C23_Witness ==
  /\ Len(state.history) >= 2
  /\ state.history[1].timestamp < state.history[2].timestamp
  /\ dropped


Min(a, b) == IF a < b THEN a ELSE b

\* C24 as stated: a completing cycle leaves history with
\* min(len(h) + 1, M) points, h being the history it found and M the
\* capacity of the refreshStats that started the cycle, also when h is longer
\* than M.
C24_AppendPostcondition ==
  [][ RefreshResume =>
        /\ Len(state'.history) = Min(Len(state.history) + 1, capturedMax)
        /\ capturedMax >= 1 => state'.history[Len(state'.history)] = LandedPoint
    ]_vars


\* C26: unmounting clears the interval and leaves a cycle in flight as it
\* is; once unmounted no interval callback runs, no query is issued and no
\* cycle starts, and the continuation of a cycle that was in flight releases
\* the guard without issuing anything.
C26_Teardown ==
  [][ /\ Unmount =>
           /\ intervalRef' = Null
           /\ isRunningRef' = isRunningRef
           /\ fetched' = fetched
           /\ calls' = calls
      /\ unmounted =>
           /\ ~IntervalTick
           /\ intervalRef' = Null
           /\ calls' = calls
           /\ ~CycleStarts
           /\ RefreshResume => (~isRunningRef' /\ fetched' = Idle)
    ]_vars

\* a cycle in flight at teardown has completed afterwards: its guard is
\* released, and isLoading, which only a completed cycle of a mounted hook
\* resets, is still true
C26_Witness ==
  /\ unmounted /\ isAvailable /\ autoStart
  /\ ~isRunningRef /\ fetched = Idle
  /\ calls.memory = 1 /\ state.isLoading
  /\ intervalRef = Null


\* C25: the identity result changes systemInfo and no other field, whatever
\* the refresh cycles have written before it; a completing cycle writes its
\* results and leaves systemInfo as it is; nothing but the identity result
\* changes systemInfo, and nothing changes it once that result has landed.
C25_IdentityIndependent ==
  [][ /\ SystemInfoLoaded =>
           /\ state' = [state EXCEPT !.systemInfo = state'.systemInfo]
           /\ state'.systemInfo \in (SystemInfoOutcomes \ {Reject}) \cup {Null}
           /\ pushed' = pushed
           /\ isRunningRef' = isRunningRef /\ fetched' = fetched
      /\ RefreshResume =>
           state' = [state EXCEPT !.memory = fetched["memory"],
                                  !.network = fetched["network"],
                                  !.processes = fetched["processes"],
                                  !.history = state'.history,
                                  !.isLoading = FALSE,
                                  !.error = Null]
      /\ state'.systemInfo # state.systemInfo => SystemInfoLoaded
      /\ sysIpc = "done" => (sysIpc' = "done" /\ state'.systemInfo = state.systemInfo)
    ]_vars

\* the identity and a cycle's snapshot and point, both in the state, with a
\* second cycle in flight
C25_Witness ==
  /\ sysIpc = "done" /\ state.systemInfo = "s1"
  /\ state.memory = "m1" /\ state.network = "n1"
  /\ Len(state.history) = 1 /\ state.history[1].memory = "m1"
  /\ isRunningRef /\ calls.memory = 2 /\ calls.systemInfo = 1


\* C28: a trigger that finds the guard taken leaves it taken, however many
\* came before it, and leaves the cycle's promises alone; the guard is
\* released by the continuation of the cycle and by no other step.
C28_DropKeepsGuard ==
  [][ /\ (isRunningRef /\ Trigger) =>
           /\ isRunningRef'
           /\ dropped'
           /\ fetched' = fetched
      /\ (isRunningRef /\ ~isRunningRef') =>
           /\ RefreshResume
           /\ ~Trigger
           /\ \A q \in Queries : Settled(q)
    ]_vars

\* the second cycle of a session, a trigger dropped during it, its three
\* queries settled and the guard still taken
C28_Witness ==
  /\ isRunningRef /\ dropped
  /\ \A q \in Queries : Settled(q)
  /\ calls.memory = 2 /\ Len(pushed) = 1

\* C29: whenever history is non-empty, its newest point carries the memory
\* and network of the current snapshot.
C29_SnapshotMatchesNewest ==
  Len(state.history) >= 1 =>
    /\ state.history[Len(state.history)].memory = state.memory
    /\ state.history[Len(state.history)].network = state.network

\* after an eviction: three cycles into a buffer of two, the older point
\* kept differs from the snapshot and the newest agrees with it
C29_Witness ==
  /\ maxHistoryLength = 2 /\ Len(pushed) = 3 /\ Len(state.history) = 2
  /\ state.memory = "m1" /\ state.network = Null
  /\ state.history[2].memory = "m1" /\ state.history[2].network = Null
  /\ state.history[1].memory = Null /\ state.history[1].network = "n1"


\* ------------------------------------------ breathing: state invariant

TimerInvariant(t) ==
  /\ (~t.isActive) = (t.phase = "idle")
  /\ ~t.isActive => t.phaseTimeRemaining = 0
  /\ t.isActive =>
       /\ t.phaseTimeRemaining >= 1
       /\ t.sessionTimeRemaining >= 1
       /\ t.sessionTimeRemaining <= t.sessionDuration * SecondsPerMinute

RequestedCount == IF args = <<>> THEN DefaultCount ELSE args[1]

\* process a does not come after process b: more cpu, or the same cpu and at
\* least as much resident memory
NotAfter(a, b) == a.cpu > b.cpu \/ (a.cpu = b.cpu /\ a.memRss >= b.memRss)

\* C27: once the handler has returned, it has returned null if sampling
\* failed and an empty list if there was no process; otherwise a list of
\* min(count, n) entries for distinct sampled processes, each with its cpu
\* (rounded) and memory, ordered by cpu descending and then memory
\* descending, no process left out coming before one returned, and the cpu
\* values returned never increasing.
C27_TopProcesses ==
  topProcesses.status # "pending" =>
    LET list   == siProcesses.list
        n      == Len(list)
        result == topProcesses.list
        k      == Len(result)
    IN  IF siProcesses.status = "fail"
        THEN topProcesses.status = "null"
        ELSE /\ topProcesses.status = "ok"
             /\ IF siProcesses.status = "nolist" THEN k = 0
                ELSE /\ k = Min(RequestedCount, n)
                     /\ \A i \in 1..k :
                          /\ result[i].pid \in 1..n
                          /\ result[i].cpu = roundCpu(list[result[i].pid].cpu)
                          /\ result[i].memory = list[result[i].pid].memRss
                     /\ \A i, j \in 1..k :
                          i < j =>
                            /\ result[i].pid # result[j].pid
                            /\ NotAfter(list[result[i].pid], list[result[j].pid])
                            /\ result[i].cpu >= result[j].cpu
                     /\ \A p \in 1..n :
                          (\A i \in 1..k : result[i].pid # p) =>
                            \A i \in 1..k : NotAfter(list[result[i].pid], list[p])

\* two of three processes returned: the tie on cpu went to the one with more
\* memory, sampled later, and the process left out has less cpu
C27_Witness ==
  /\ topProcesses.status = "ok" /\ Len(topProcesses.list) = 2
  /\ Len(siProcesses.list) = 3 /\ args = <<2>>
  /\ topProcesses.list[1].cpu = topProcesses.list[2].cpu
  /\ topProcesses.list[1].memory > topProcesses.list[2].memory
  /\ topProcesses.list[1].pid > topProcesses.list[2].pid
  /\ siProcesses.list[1].cpu < siProcesses.list[2].cpu

====
